---- MODULE Spec2Model ----
(***************************************************************************)
(* Snapshot file framing and integrity checking of internal/rsm:           *)
(* SnapshotWriter, SnapshotReader and SnapshotValidator of snapshotio.go.  *)
(*                                                                         *)
(* A file is a sequence of bytes (0..255).  A file handle is an offset     *)
(* into it.  A panic ends the life of the object that raised it.           *)
(***************************************************************************)
EXTENDS Integers, Sequences, FiniteSets, TLC

(***************************************************************************)
(* Bounds of the model.                                                    *)
(***************************************************************************)
\* The fixed header-region size (settings.SnapshotHeaderSize), scaled so
\* that a serialized header can both fit and fail to fit.
SnapshotHeaderSize == 32
\* The longest payload a writer is given, and the longest buffer handed to
\* one Write or Read call, in bytes.
MaxPayload == 2
\* The number of calls made on one writer after it is opened: enough for
\* write, flush, saveHeader and close, in any order.
MaxWriterCalls == MaxPayload + 2
\* The number of AddChunk calls made on one validator.
MaxChunks == 2

(***************************************************************************)
(* Program constants.                                                      *)
(***************************************************************************)
v1SnapshotVersion == 1
v2SnapshotVersion == 2
\* make([]byte, 8): the little-endian length prefix of the header.
LenPrefixSize == 8
\* fileSz - SnapshotHeaderSize - 16: the trailer of a version 2 file.
V2TailSize == 16
\* pb.ChecksumType
CRC32IEEE == 0
HIGHWAY == 1
\* the modulus and the multiplier of the model's checksum
HashMod == 32749
HashMul == 31

\* a nil []byte, as opposed to an empty one
Nil == <<-1>>
Bytes(b) == IF b = Nil THEN <<>> ELSE b
\* bytes.Equal
BytesEqual(a, b) == Bytes(a) = Bytes(b)

Min(a, b) == IF a < b THEN a ELSE b
Max(a, b) == IF a > b THEN a ELSE b
Zeros(n) == [i \in 1 .. n |-> 0]
\* data[from:] with 0-based from
Drop(s, n) == IF n >= Len(s) THEN <<>> ELSE SubSeq(s, n + 1, Len(s))
Take(s, n) == IF n <= 0 THEN <<>> ELSE SubSeq(s, 1, Min(n, Len(s)))

(***************************************************************************)
(* The checksum: crc32.NewIEEE() as a running hash over the bytes written, *)
(* Sum(nil) giving four bytes.                                             *)
(***************************************************************************)
\* HashMul^k modulo HashMod
RECURSIVE PowMod(_)
PowMod(k) ==
    IF k = 0 THEN 1
    ELSE LET h == PowMod(k \div 2)
             sq == (h * h) % HashMod
         IN  IF k % 2 = 0 THEN sq ELSE (sq * HashMul) % HashMod

\* the hash of data[lo .. hi]: h' = h * HashMul + b + 1 over its bytes b in
\* order, from h = 0, computed by halves
RECURSIVE HashOf(_, _, _)
HashOf(data, lo, hi) ==
    IF lo > hi THEN 0
    ELSE IF lo = hi THEN data[lo] + 1
    ELSE LET mid == (lo + hi) \div 2
         IN  (HashOf(data, lo, mid) * PowMod(hi - mid)
              + HashOf(data, mid + 1, hi)) % HashMod

newCRC32Hash(data) ==
    LET h == HashOf(data, 1, Len(data))
    IN  <<h % 256, (h \div 256) % 256, Len(data) % 256, 0>>

\* getChecksum(t) applied to data: the sum, or a panic
ChecksumSupported(t) == t = CRC32IEEE
getChecksum(t, data) == newCRC32Hash(data)

defaultChecksumType == CRC32IEEE
getChecksumType == defaultChecksumType
getDefaultChecksum(data) == getChecksum(getChecksumType, data)

(***************************************************************************)
(* binary.LittleEndian.PutUint64 / Uint64                                  *)
(***************************************************************************)
RECURSIVE PutUint(_, _)
PutUint(n, k) ==
    IF k = 0 THEN <<>> ELSE <<n % 256>> \o PutUint(n \div 256, k - 1)

\* The value is only ever compared with the header size: any set byte
\* above the second stands for a value beyond every size of the model.
Huge == 16777216
Uint64(b) ==
    IF \E i \in 3 .. Len(b) : b[i] # 0 THEN Huge
    ELSE b[1] + 256 * b[2]

(***************************************************************************)
(* pb.SnapshotHeader and its protobuf encoding: a field is a tag byte      *)
(* (number * 8 + wire type) and a varint or a length-delimited value.      *)
(***************************************************************************)
RECURSIVE EncodeVarint(_)
EncodeVarint(v) ==
    IF v < 128 THEN <<v>> ELSE <<(v % 128) + 128>> \o EncodeVarint(v \div 128)

EmptyHeader ==
    [SessionSize |-> 0, DataStoreSize |-> 0, UnreliableTime |-> 0,
     PayloadChecksum |-> Nil, ChecksumType |-> 0, Version |-> 0,
     HeaderChecksum |-> Nil]

VarintField(num, v) == <<num * 8>> \o EncodeVarint(v)
BytesField(num, b) ==
    IF b = Nil THEN <<>> ELSE <<num * 8 + 2>> \o EncodeVarint(Len(b)) \o b

Marshal(h) ==
    VarintField(1, h.SessionSize) \o VarintField(2, h.DataStoreSize)
    \o VarintField(3, h.UnreliableTime) \o BytesField(4, h.PayloadChecksum)
    \o VarintField(5, h.ChecksumType) \o VarintField(6, h.Version)
    \o BytesField(7, h.HeaderChecksum)

\* A varint at the head of data: [ok, v, n] with n the bytes it takes.
\* More than three bytes are refused (the model's values are below 2^21).
RECURSIVE DecodeVarint(_, _)
DecodeVarint(data, depth) ==
    IF data = <<>> \/ depth > 3 THEN [ok |-> FALSE, v |-> 0, n |-> 0]
    ELSE IF Head(data) < 128 THEN [ok |-> TRUE, v |-> Head(data), n |-> 1]
    ELSE LET r == DecodeVarint(Tail(data), depth + 1)
         IN  [ok |-> r.ok, v |-> (Head(data) - 128) + 128 * r.v, n |-> r.n + 1]

SetVarint(h, num, v) ==
    CASE num = 1 -> [h EXCEPT !.SessionSize = v]
      [] num = 2 -> [h EXCEPT !.DataStoreSize = v]
      [] num = 3 -> [h EXCEPT !.UnreliableTime = v]
      [] num = 5 -> [h EXCEPT !.ChecksumType = v]
      [] num = 6 -> [h EXCEPT !.Version = v]
      [] OTHER -> h

SetBytes(h, num, b) ==
    CASE num = 4 -> [h EXCEPT !.PayloadChecksum = b]
      [] num = 7 -> [h EXCEPT !.HeaderChecksum = b]
      [] OTHER -> h

\* Unmarshal into h: [ok, h].  A field of a known number with the wrong
\* wire type, a wire type other than 0 and 2, and a cut value are errors;
\* a field of an unknown number is skipped.
RECURSIVE UnmarshalInto(_, _)
UnmarshalInto(h, data) ==
    IF data = <<>> THEN [ok |-> TRUE, h |-> h]
    ELSE
      LET tag == Head(data)
          num == tag \div 8
          wt == tag % 8
          rest == Tail(data)
          bad == [ok |-> FALSE, h |-> EmptyHeader]
      IN  IF tag >= 128 \/ num = 0 THEN bad
          ELSE IF wt = 0 THEN
            LET r == DecodeVarint(rest, 1)
            IN  IF ~r.ok \/ num \in {4, 7} THEN bad
                ELSE UnmarshalInto(SetVarint(h, num, r.v), Drop(rest, r.n))
          ELSE IF wt = 2 THEN
            LET r == DecodeVarint(rest, 1)
            IN  IF ~r.ok \/ num \in {1, 2, 3, 5, 6} THEN bad
                ELSE IF r.n + r.v > Len(rest) THEN bad
                ELSE UnmarshalInto(
                       SetBytes(h, num, SubSeq(rest, r.n + 1, r.n + r.v)),
                       Drop(rest, r.n + r.v))
          ELSE bad

Unmarshal(data) == UnmarshalInto(EmptyHeader, data)

(***************************************************************************)
(* The state.                                                              *)
(*   file  the bytes of the snapshot file, Nil while no file exists        *)
(*   sw    the SnapshotWriter: its life, its open descriptor, the offset   *)
(*         of sw.file, the version and state of sw.vw                      *)
(*   sr    a SnapshotReader: its life, its open descriptor, the offset    *)
(*         of sr.file, sr.r and the header GetHeader returned last         *)
(*   sr2   a second SnapshotReader, of another owner                       *)
(*   sv    the SnapshotValidator: sv.v and the state of the strategy       *)
(*   last  the last call made, its arguments and what it returned          *)
(* Fields that record the past for the properties: sw.canon, sw.calls,     *)
(* sw.saved (the arguments of the last SaveHeader that returned nil),      *)
(* sr.hasHeader, sr.ghcalls (the GetHeader calls made), sr.gherr (one of   *)
(* them returned an error), sr.eof, sr.vh, sr.vp, sv.fed, sv.calls,        *)
(* sv.bad0 (chunks 0 that held no header).                                 *)
(***************************************************************************)
VARIABLES file, sw, sr, sr2, sv, last

vars == <<file, sw, sr, sr2, sv, last>>

\* The values the callers pass.
PayloadByte == {0, 1}
Buffers == UNION {[1 .. n -> PayloadByte] : n \in 0 .. MaxPayload}
\* smsz, sz and time.Now(): varints of one, two and three bytes
SessionSizeVals == {1, 20000}
DataStoreSizeVals == {1, 200}
TimeVals == {300}
WriterVersions == {1, 2, 3}

Call(op, res, arg, out) == [op |-> op, res |-> res, arg |-> arg, out |-> out]

\* f.Write(data) at offset pos of file f: a gap is filled with zeros
WriteAt(f, pos, data) ==
    [i \in 1 .. Max(Len(f), pos + Len(data)) |->
        IF i > pos /\ i <= pos + Len(data) THEN data[i - pos]
        ELSE IF i <= Len(f) THEN f[i] ELSE 0]

VersionSupportedOrZero(v) == v \in {0, v1SnapshotVersion, v2SnapshotVersion}
VersionSupported(v) == v \in {v1SnapshotVersion, v2SnapshotVersion}

\* the trailer a version 2 writer ends the payload with
V2Tail == [i \in 1 .. V2TailSize |-> 255]

(***************************************************************************)
(* The version strategies of the writer: newV1Wrtier and newV2Writer.      *)
(* Both hash every byte written; version 1 writes it through, version 2    *)
(* buffers it until Flush, which writes the buffer and the trailer.        *)
(***************************************************************************)
NewVW(v) == [version |-> v, h |-> <<>>, buf |-> <<>>]
NoVW == NewVW(0)

vwWritten(vw, data) ==
    IF vw.version = v1SnapshotVersion THEN data ELSE <<>>
vwWrite(vw, data) ==
    [vw EXCEPT !.h = @ \o data,
               !.buf = IF vw.version = v1SnapshotVersion THEN @ ELSE @ \o data]
vwFlushed(vw) ==
    IF vw.version = v1SnapshotVersion THEN <<>> ELSE vw.buf \o V2Tail
vwFlush(vw) == [vw EXCEPT !.buf = <<>>]
GetPayloadSum(vw) == getDefaultChecksum(vw.h)
GetVersion(vw) == vw.version

NoWriter == [st |-> "none", fd |-> FALSE, pos |-> 0, vw |-> NoVW,
             canon |-> "none", calls |-> 0, saved |-> <<>>]
NoReader == [st |-> "none", fd |-> FALSE, pos |-> 0, r |-> 0,
             limited |-> FALSE, limit |-> 0,
             h |-> <<>>, eof |-> FALSE, header |-> EmptyHeader,
             hasHeader |-> FALSE, ghcalls |-> 0, gherr |-> FALSE,
             vh |-> FALSE, vp |-> FALSE]
NoValidator == [st |-> "live", v |-> 0, header |-> EmptyHeader, h |-> <<>>,
                fed |-> 0, calls |-> 0, bad0 |-> 0]

Init ==
    /\ file = Nil
    /\ sw = NoWriter
    /\ sr = NoReader
    /\ sr2 = NoReader
    /\ sv = NoValidator
    /\ last = Call("none", "none", <<>>, <<>>)

\* The step of the call protocol open, write*, flush, saveHeader, close
\* that a writer is at; "off" once it has left the protocol.
Canon(c, op) ==
    CASE op = "Write" /\ c = "writing" -> "writing"
      [] op = "Flush" /\ c = "writing" -> "flushed"
      [] op = "SaveHeader" /\ c = "flushed" -> "saved"
      [] op = "Close" /\ c = "saved" -> "closed"
      [] OTHER -> "off"

(***************************************************************************)
(* SnapshotWriter                                                          *)
(***************************************************************************)
\* NewSnapshotWriter(fp, version); fail is the I/O call that fails
NewSnapshotWriter ==
    /\ sw.st = "none" /\ sr.st = "none"
    /\ \E version \in WriterVersions, fail \in {"none", "open", "write"} :
        /\ last' = Call("NewSnapshotWriter",
                        IF fail # "none" THEN "err"
                        ELSE IF VersionSupported(version) THEN "ok"
                        ELSE "panic",
                        <<version>>, <<>>)
        /\ IF fail = "open"
           THEN /\ sw' = [sw EXCEPT !.st = "failed"]
                /\ UNCHANGED file
           ELSE IF fail = "write"
           THEN /\ sw' = [sw EXCEPT !.st = "failed", !.fd = TRUE]
                /\ file' = <<>>
           ELSE /\ file' = Zeros(SnapshotHeaderSize)
                /\ sw' = IF VersionSupported(version)
                         THEN [st |-> "open", fd |-> TRUE,
                               pos |-> SnapshotHeaderSize,
                               vw |-> NewVW(version), canon |-> "writing",
                               calls |-> 0, saved |-> <<>>]
                         ELSE [sw EXCEPT !.st = "panic", !.fd = TRUE,
                                         !.pos = SnapshotHeaderSize]
    /\ UNCHANGED <<sr, sr2, sv>>

\* the writer is open and its owner has calls left
WriterLive == sw.st = "open" /\ sw.calls < MaxWriterCalls

\* sw.Write(data)
Write ==
    /\ WriterLive
    /\ \E data \in Buffers :
        /\ Len(sw.vw.h) + Len(data) <= MaxPayload
        /\ LET out == vwWritten(sw.vw, data)
           IN  /\ file' = WriteAt(file, sw.pos, out)
               /\ sw' = [sw EXCEPT !.vw = vwWrite(@, data),
                                   !.pos = @ + Len(out),
                                   !.canon = Canon(@, "Write"),
                                   !.calls = @ + 1]
        /\ last' = Call("Write", "ok", data, <<>>)
    /\ UNCHANGED <<sr, sr2, sv>>

\* sw.Flush()
Flush ==
    /\ WriterLive
    /\ LET out == vwFlushed(sw.vw)
       IN  /\ file' = WriteAt(file, sw.pos, out)
           /\ sw' = [sw EXCEPT !.vw = vwFlush(@), !.pos = @ + Len(out),
                               !.canon = Canon(@, "Flush"),
                               !.calls = @ + 1]
    /\ last' = Call("Flush", "ok", <<>>, <<>>)
    /\ UNCHANGED <<sr, sr2, sv>>

\* the header SaveHeader builds, with its checksum
BuildHeaderSwapped(vw, smsz, sz, now) ==
    LET sh == [SessionSize |-> sz, DataStoreSize |-> smsz,
               UnreliableTime |-> now, PayloadChecksum |-> GetPayloadSum(vw),
               ChecksumType |-> getChecksumType, Version |-> GetVersion(vw),
               HeaderChecksum |-> Nil]
    IN  [sh EXCEPT !.HeaderChecksum = getDefaultChecksum(Marshal(sh))]
BuildHeader(vw, smsz, sz, now) ==
    LET sh == [SessionSize |-> smsz, DataStoreSize |-> sz,
               UnreliableTime |-> now, PayloadChecksum |-> GetPayloadSum(vw),
               ChecksumType |-> getChecksumType, Version |-> GetVersion(vw),
               HeaderChecksum |-> Nil]
    IN  [sh EXCEPT !.HeaderChecksum = getDefaultChecksum(Marshal(sh))]

\* uint64(len(data)) > SnapshotHeaderSize-8
HeaderTooLargeNoPrefix(data) == Len(data) > SnapshotHeaderSize
HeaderTooLarge(data) == Len(data) > SnapshotHeaderSize - LenPrefixSize

\* sw.file.Seek(0, 0): the offset the header is written at, pos being the
\* offset of sw.file before
HeaderOffsetNoSeek(pos) == pos
HeaderOffset(pos) == 0

\* sw.SaveHeader(smsz, sz); fail is the I/O call that fails
SaveHeader ==
    /\ WriterLive
    /\ \E smsz \in SessionSizeVals, sz \in DataStoreSizeVals, now \in TimeVals,
          fail \in {"none", "seek", "lenbuf", "data"} :
        LET data == Marshal(BuildHeader(sw.vw, smsz, sz, now))
            lenbuf == PutUint(Len(data), LenPrefixSize)
            arg == <<smsz, sz, now>>
            off == HeaderOffset(sw.pos)
        IN  IF HeaderTooLarge(data) \/ fail = "seek"
            THEN /\ sw' = [sw EXCEPT !.st = "panic", !.calls = @ + 1]
                 /\ last' = Call("SaveHeader", "panic", arg, <<>>)
                 /\ UNCHANGED file
            ELSE IF fail = "lenbuf"
            THEN /\ sw' = [sw EXCEPT !.pos = off, !.canon = "off",
                                     !.calls = @ + 1]
                 /\ last' = Call("SaveHeader", "err", arg, <<>>)
                 /\ UNCHANGED file
            ELSE IF fail = "data"
            THEN /\ sw' = [sw EXCEPT !.pos = off + LenPrefixSize,
                                     !.canon = "off", !.calls = @ + 1]
                 /\ last' = Call("SaveHeader", "err", arg, <<>>)
                 /\ file' = WriteAt(file, off, lenbuf)
            ELSE /\ sw' = [sw EXCEPT !.pos = off + LenPrefixSize + Len(data),
                                     !.canon = Canon(@, "SaveHeader"),
                                     !.calls = @ + 1, !.saved = arg]
                 /\ last' = Call("SaveHeader", "ok", arg, <<>>)
                 /\ file' = WriteAt(file, off, lenbuf \o data)
    /\ UNCHANGED <<sr, sr2, sv>>

\* The sub-steps of Close that were carried out without an error, in
\* order, when fail is the one that fails: sw.file.Sync(),
\* fileutil.SyncDir(dir) and sw.file.Close(), each reached only when the
\* ones before it returned nil.
CloseDoneDirFirst(fail) ==
    CASE fail = "syncdir" -> <<>>
      [] fail = "sync" -> <<"syncdir">>
      [] fail = "close" -> <<"syncdir", "sync">>
      [] OTHER -> <<"syncdir", "sync", "close">>
CloseDone(fail) ==
    CASE fail = "sync" -> <<>>
      [] fail = "syncdir" -> <<"sync">>
      [] fail = "close" -> <<"sync", "syncdir">>
      [] OTHER -> <<"sync", "syncdir", "close">>

\* sw.Close(); fail is the step that fails
CloseWriter ==
    /\ WriterLive
    /\ \E fail \in {"none", "sync", "syncdir", "close"} :
        /\ sw' = IF fail \in {"sync", "syncdir"}
                 THEN [sw EXCEPT !.canon = "off", !.calls = @ + 1]
                 ELSE [sw EXCEPT !.st = "closed", !.fd = FALSE,
                                 !.canon = IF fail = "none"
                                           THEN Canon(@, "Close") ELSE "off"]
        /\ last' = Call("Close", IF fail = "none" THEN "ok" ELSE "err",
                        <<fail>>, CloseDone(fail))
    /\ UNCHANGED <<file, sr, sr2, sv>>

\* the owner of the writer stops calling it before the header is saved
Abandon ==
    /\ sw.st = "open" /\ sw.canon \in {"writing", "flushed"}
    /\ sw' = [sw EXCEPT !.st = "abandoned"]
    /\ last' = Call("Abandon", "none", <<>>, <<>>)
    /\ UNCHANGED <<file, sr, sr2, sv>>

\* The file of a writer that completed open, write*, flush, saveHeader,
\* close is damaged before it is read: one byte of the serialized header
\* or of the payload is changed, or the file is cut short.
DamageBytes == {0, 1, 48, 64, 255}
PayloadStart == SnapshotHeaderSize
DamagedAt(f, i, b) == [f EXCEPT ![i + 1] = b]
Damage ==
    /\ sw.st = "closed" /\ sw.canon = "closed" /\ sr.st = "none"
    /\ LET L == Uint64(Take(file, LenPrefixSize))
           P == Len(sw.vw.h)
       IN  \/ \E i \in (LenPrefixSize .. LenPrefixSize + L - 1)
                        \cup (PayloadStart .. PayloadStart + P - 1),
                  b \in DamageBytes :
                  /\ b # file[i + 1]
                  /\ file' = DamagedAt(file, i, b)
                  /\ sw' = [sw EXCEPT !.st = "corrupt"]
                  /\ last' = Call("Damage", "none", <<i, b>>, <<>>)
           \/ \E n \in 0 .. Len(file) - 1 :
                  /\ file' = Take(file, n)
                  /\ sw' = [sw EXCEPT !.st = "truncated"]
                  /\ last' = Call("Damage", "none", <<n>>, <<>>)
    /\ UNCHANGED <<sr, sr2, sv>>

(***************************************************************************)
(* A snapshot file that this writer did not produce: the header region of  *)
(* header h, the payload and the version's trailer, cut to n bytes.        *)
(***************************************************************************)
HeaderRegion(data) ==
    WriteAt(Zeros(SnapshotHeaderSize), 0,
            PutUint(Len(data), LenPrefixSize) \o data)

Sealed(h) ==
    LET sh == [h EXCEPT !.HeaderChecksum = Nil]
    IN  [sh EXCEPT !.HeaderChecksum = newCRC32Hash(Marshal(sh))]

FileOf(h, payload) ==
    HeaderRegion(Marshal(h)) \o payload
    \o (IF h.Version = v2SnapshotVersion THEN V2Tail ELSE <<>>)

ForeignVersions == 0 .. 3
ForeignChecksumTypes == {CRC32IEEE, HIGHWAY, 2}
ForeignPayloads == {<<>>, <<0, 1>>}
ForeignHeaders ==
    {Sealed([SessionSize |-> 1, DataStoreSize |-> 1, UnreliableTime |-> 300,
             PayloadChecksum |-> newCRC32Hash(p), ChecksumType |-> t,
             Version |-> v, HeaderChecksum |-> Nil]) :
        p \in ForeignPayloads, t \in ForeignChecksumTypes,
        v \in ForeignVersions}
\* where a foreign file is cut: not at all, or inside the length prefix,
\* the header, the padding or the payload
Cuts == {-1, 0, 4, 12, SnapshotHeaderSize - 1, SnapshotHeaderSize + 1}

InstallFile ==
    /\ sw.st = "none" /\ sr.st = "none" /\ file = Nil
    /\ \E h \in ForeignHeaders, p \in ForeignPayloads, n \in Cuts,
          biglen \in BOOLEAN :
        /\ h.PayloadChecksum = newCRC32Hash(p)
        /\ biglen => n = -1 /\ p = <<>> /\ h.Version = v1SnapshotVersion
                     /\ h.ChecksumType = CRC32IEEE
        /\ LET f == IF biglen
                    THEN WriteAt(FileOf(h, p), 0,
                                 PutUint(SnapshotHeaderSize - LenPrefixSize + 1,
                                         LenPrefixSize))
                    ELSE FileOf(h, p)
           IN  file' = IF n < 0 THEN f ELSE Take(f, n)
    /\ sw' = [sw EXCEPT !.st = "absent"]
    /\ last' = Call("InstallFile", "none", <<>>, <<>>)
    /\ UNCHANGED <<sr, sr2, sv>>

(***************************************************************************)
(* The version strategies of the reader: newV1Reader and newV2Reader over  *)
(* the file from offset pos; when limited, limit is the N left of the      *)
(* io.LimitReader around the file.  Both hash every byte they return.      *)
(***************************************************************************)
getVersionReader(rd, limited, limit, v) ==
    [rd EXCEPT !.r = v, !.limited = limited, !.limit = limit, !.h = <<>>,
               !.eof = FALSE]

\* the bytes one Read of a buffer of n bytes returns: none at the end of
\* the file, and none once the N of the LimitReader is <= 0
ReadBytes(f, pos, limited, limit, n) ==
    LET avail == Max(0, Len(f) - pos)
        k == IF limited THEN Min(Min(n, avail), limit) ELSE Min(n, avail)
    IN  IF k <= 0 THEN <<>> ELSE SubSeq(f, pos + 1, pos + k)

(***************************************************************************)
(* SnapshotReader                                                          *)
(***************************************************************************)
\* The files a reader is opened on: one that the call protocol of the
\* writer completed, one that the writer left without a saved header (its
\* owner stopped, or open failed), or one of another origin.
ReaderMayOpen ==
    \/ sw.canon = "closed"
    \/ sw.st \in {"abandoned", "failed", "absent"}
    \/ sw.st = "panic" /\ sw.vw.version = 0

\* NewSnapshotReader(fp) giving the reader rd, rdn being rd after the call
ReaderOpen(rd, rdn) ==
    /\ rd.st = "none"
    /\ IF file = Nil
       THEN /\ rdn = [rd EXCEPT !.st = "failed"]
            /\ last' = Call("NewSnapshotReader", "err", <<>>, <<>>)
       ELSE /\ rdn = [rd EXCEPT !.st = "open", !.fd = TRUE]
            /\ last' = Call("NewSnapshotReader", "ok", <<>>, <<>>)
    /\ UNCHANGED file

\* io.ReadFull(sr.file, buf) with len(buf) = n: [ok, data, pos]
ReadFull(f, pos, n) ==
    LET data == ReadBytes(f, pos, FALSE, 0, n)
    IN  [ok |-> Len(data) = n, data |-> data, pos |-> pos + Len(data)]

\* The offset of rd.file: each reader has the os.File that its own
\* os.OpenFile returned.
FileOffsetShared(rd) == sr.pos
FileOffset(rd) == rd.pos

\* The reader after GetHeader returned (empty, err) with sr.file at pos:
\* sr.r is as it was.
GetHeaderFailedBound(rd, pos) ==
    [getVersionReader(rd, FALSE, 0, v1SnapshotVersion)
     EXCEPT !.pos = pos, !.gherr = TRUE, !.ghcalls = Min(@ + 1, 2)]
GetHeaderFailed(rd, pos) ==
    [rd EXCEPT !.pos = pos, !.gherr = TRUE, !.ghcalls = Min(@ + 1, 2)]

\* sz > SnapshotHeaderSize-8, sz being the length prefix read
HeaderSizeInvalidWholeRegion(sz) == sz > SnapshotHeaderSize
HeaderSizeInvalid(sz) == sz > SnapshotHeaderSize - LenPrefixSize

\* sr.file.Seek(int64(SnapshotHeaderSize), 0): the offset of sr.file
\* after it, pos being the offset before
SeekPayloadNone(pos) == pos
SeekPayload(pos) == SnapshotHeaderSize

\* payloadSz := fileSz - int64(SnapshotHeaderSize) - 16, a signed value
PayloadSizeNoTail(fileSz) == fileSz - SnapshotHeaderSize
PayloadSize(fileSz) == fileSz - SnapshotHeaderSize - V2TailSize

\* rd.GetHeader(); fail is the I/O call that fails, and the bytes read into
\* data are recorded with the call
ReaderGetHeader(rd, rdn) ==
    /\ rd.st = "open" /\ rd.r = 0
    /\ \E fail \in {"none", "seek", "stat"} :
        LET lenbuf == ReadFull(file, FileOffset(rd), LenPrefixSize)
            sz == Uint64(lenbuf.data)
            data == ReadFull(file, lenbuf.pos, sz)
            r == Unmarshal(data.data)
            version == r.h.Version
            payloadSz == PayloadSize(Len(file))
            got == IF lenbuf.ok /\ ~HeaderSizeInvalid(sz)
                   THEN data.data ELSE <<>>
            err(pos) ==
                /\ rdn = GetHeaderFailed(rd, pos)
                /\ last' = Call("GetHeader", "err", <<fail>>, got)
            panic(pos) ==
                /\ rdn = [rd EXCEPT !.pos = pos, !.st = "panic",
                                    !.ghcalls = Min(@ + 1, 2)]
                /\ last' = Call("GetHeader", "panic", <<fail>>, got)
        IN  IF ~lenbuf.ok THEN fail = "none" /\ err(lenbuf.pos)
            ELSE IF HeaderSizeInvalid(sz)
            THEN fail = "none" /\ panic(lenbuf.pos)
            ELSE IF ~data.ok THEN fail = "none" /\ err(data.pos)
            ELSE IF ~r.ok THEN fail = "none" /\ panic(data.pos)
            ELSE IF fail = "seek" THEN err(data.pos)
            ELSE IF version # v2SnapshotVersion /\ fail = "stat" THEN FALSE
            ELSE IF fail = "stat" THEN err(SeekPayload(data.pos))
            ELSE IF ~VersionSupported(version)
            THEN panic(SeekPayload(data.pos))
            ELSE /\ rdn = [getVersionReader(rd, version = v2SnapshotVersion,
                               IF version = v2SnapshotVersion
                               THEN payloadSz ELSE 0, version)
                           EXCEPT !.pos = SeekPayload(data.pos),
                                  !.header = r.h, !.hasHeader = TRUE,
                                  !.ghcalls = Min(@ + 1, 2)]
                 /\ last' = Call("GetHeader", "ok", <<fail>>, got)
    /\ UNCHANGED file

\* sr.r == nil
ReaderUnbound(rd) == rd.r = 0

\* rd.Read(data) with len(data) = n
ReaderRead(rd, rdn) ==
    /\ rd.st = "open"
    /\ \E n \in 1 .. MaxPayload :
        IF ReaderUnbound(rd)
        THEN /\ rdn = [rd EXCEPT !.st = "panic"]
             /\ last' = Call("Read", "panic", <<n>>, <<>>)
        ELSE LET pos == FileOffset(rd)
                 out == ReadBytes(file, pos, rd.limited, rd.limit, n)
             IN  /\ rdn = [rd EXCEPT !.pos = pos + Len(out),
                                     !.limit = IF rd.limited
                                               THEN @ - Len(out) ELSE @,
                                     !.h = @ \o out,
                                     !.eof = @ \/ out = <<>>]
                 /\ last' = Call("Read", IF out = <<>> THEN "eof" ELSE "ok",
                                 <<n>>, out)
    /\ UNCHANGED file

\* sr.r.Sum()
ReaderSum(rd) == newCRC32Hash(rd.h)

PayloadValid(rd, header) ==
    rd.r # 0 /\ BytesEqual(ReaderSum(rd), header.PayloadChecksum)

\* rd.ValidatePayload(header), header being the one GetHeader returned
ReaderValidatePayload(rd, rdn) ==
    /\ rd.st = "open"
    /\ IF PayloadValid(rd, rd.header)
       THEN /\ rdn = [rd EXCEPT !.vp = TRUE]
            /\ last' = Call("ValidatePayload", "ok", <<>>, <<>>)
       ELSE /\ rdn = [rd EXCEPT !.st = "panic"]
            /\ last' = Call("ValidatePayload", "panic", <<>>, <<>>)
    /\ UNCHANGED file

HeaderValid(header) ==
    /\ ChecksumSupported(header.ChecksumType)
    /\ BytesEqual(getChecksum(header.ChecksumType,
                              Marshal([header EXCEPT !.HeaderChecksum = Nil])),
                  header.HeaderChecksum)

\* rd.ValidateHeader(header), header being the one GetHeader returned
ReaderValidateHeader(rd, rdn) ==
    /\ rd.st = "open"
    /\ IF HeaderValid(rd.header)
       THEN /\ rdn = [rd EXCEPT !.vh = TRUE]
            /\ last' = Call("ValidateHeader", "ok", <<>>, <<>>)
       ELSE /\ rdn = [rd EXCEPT !.st = "panic"]
            /\ last' = Call("ValidateHeader", "panic", <<>>, <<>>)
    /\ UNCHANGED file

\* rd.Close()
ReaderClose(rd, rdn) ==
    /\ rd.st = "open"
    /\ rdn = [rd EXCEPT !.st = "closed", !.fd = FALSE]
    /\ last' = Call("CloseReader", "ok", <<>>, <<>>)
    /\ UNCHANGED file

\* The calls on the reader sr.
NewSnapshotReader ==
    ReaderMayOpen /\ ReaderOpen(sr, sr') /\ UNCHANGED <<sw, sv, sr2>>
GetHeader == ReaderGetHeader(sr, sr') /\ UNCHANGED <<sw, sv, sr2>>
Read == ReaderRead(sr, sr') /\ UNCHANGED <<sw, sv, sr2>>
ValidatePayload == ReaderValidatePayload(sr, sr') /\ UNCHANGED <<sw, sv, sr2>>
ValidateHeader == ReaderValidateHeader(sr, sr') /\ UNCHANGED <<sw, sv, sr2>>
CloseReader == ReaderClose(sr, sr') /\ UNCHANGED <<sw, sv, sr2>>

\* The calls on sr2, a second reader that another owner opens on a file
\* that a writer completed.
NewSnapshotReader2 ==
    sw.canon = "closed" /\ ReaderOpen(sr2, sr2') /\ UNCHANGED <<sw, sv, sr>>
GetHeader2 == ReaderGetHeader(sr2, sr2') /\ UNCHANGED <<sw, sv, sr>>
Read2 == ReaderRead(sr2, sr2') /\ UNCHANGED <<sw, sv, sr>>
ValidatePayload2 ==
    ReaderValidatePayload(sr2, sr2') /\ UNCHANGED <<sw, sv, sr>>
ValidateHeader2 == ReaderValidateHeader(sr2, sr2') /\ UNCHANGED <<sw, sv, sr>>
CloseReader2 == ReaderClose(sr2, sr2') /\ UNCHANGED <<sw, sv, sr>>

(***************************************************************************)
(* SnapshotValidator                                                       *)
(***************************************************************************)
\* getHeaderFromFirstChunk(data): [ok, h], the header of the header region
\* that chunk 0 starts with
getHeaderFromFirstChunk(data) ==
    LET sz == Uint64(Take(data, LenPrefixSize))
        r == Unmarshal(SubSeq(data, LenPrefixSize + 1, LenPrefixSize + sz))
        bad == [ok |-> FALSE, h |-> EmptyHeader]
    IN  IF Len(data) < SnapshotHeaderSize THEN bad
        ELSE IF sz > SnapshotHeaderSize - LenPrefixSize THEN bad
        ELSE r

\* getVersionValidator(header) returns a validator instead of panicking
ValidatorSupportedAnyChecksum(header) == VersionSupported(header.Version)
ValidatorSupported(header) ==
    \/ header.Version = v1SnapshotVersion
    \/ /\ header.Version = v2SnapshotVersion
       /\ ChecksumSupported(header.ChecksumType)

\* The version strategies of the validator, newV1Validator and
\* newV2Validator: the bytes of a chunk that are payload, which the
\* strategy hashes
ChunkPayload(data, chunkID) ==
    IF chunkID = 0 THEN Drop(data, SnapshotHeaderSize) ELSE data

\* the verdicts the strategy of version v may give on one chunk: version 1
\* only hashes it; version 2 checks a framing that is not modelled, and so
\* may give either
ChunkVerdicts(v) == IF v = v1SnapshotVersion THEN {TRUE} ELSE BOOLEAN

\* v.v.Validate(): the payload hashed matches the header's checksum, with
\* the trailer of version 2 set aside
StrategyValidate(val) ==
    IF val.v = v1SnapshotVersion
    THEN BytesEqual(newCRC32Hash(val.h), val.header.PayloadChecksum)
    ELSE /\ Len(val.h) >= V2TailSize
         /\ Drop(val.h, Len(val.h) - V2TailSize) = V2Tail
         /\ BytesEqual(newCRC32Hash(Take(val.h, Len(val.h) - V2TailSize)),
                       val.header.PayloadChecksum)

\* the chunks a transport delivers: pieces of snapshot files, and chunks
\* that hold no header region
FirstChunks ==
    {FileOf(h, p) :
        h \in {g \in ForeignHeaders :
                  /\ g.Version > 0 /\ g.ChecksumType \in {CRC32IEEE, HIGHWAY}
                  /\ g.PayloadChecksum = newCRC32Hash(<<0, 1>>)},
        p \in ForeignPayloads}
    \cup {Zeros(SnapshotHeaderSize - 1), HeaderRegion(<<255>>),
          WriteAt(Zeros(SnapshotHeaderSize), 0,
                  PutUint(SnapshotHeaderSize - LenPrefixSize + 1,
                          LenPrefixSize))}
ChunkData == FirstChunks \cup Buffers \cup {V2Tail}
ChunkIDs == 0 .. MaxChunks

\* The branch AddChunk takes on a validator whose v.v is v (0 for nil), r
\* being what getHeaderFromFirstChunk gives for the chunk: return false,
\* panic in getVersionValidator, set v.v and call its AddChunk, or call the
\* AddChunk of the v.v there is.
AddChunkBranchNoOrderCheck(v, r, chunkID) ==
    IF chunkID = 0
    THEN IF ~r.ok THEN "reject"
         ELSE IF v # 0 THEN "reject"
         ELSE IF ~ValidatorSupported(r.h) THEN "panic" ELSE "bind"
    ELSE IF v = 0 THEN "panic" ELSE "forward"
AddChunkBranchRebind(v, r, chunkID) ==
    IF chunkID = 0
    THEN IF ~r.ok THEN "reject"
         ELSE IF ~ValidatorSupported(r.h) THEN "panic" ELSE "bind"
    ELSE IF v = 0 THEN "reject" ELSE "forward"
AddChunkBranchNoOkCheck(v, r, chunkID) ==
    IF chunkID = 0
    THEN IF v # 0 THEN "reject"
         ELSE IF ~ValidatorSupported(r.h) THEN "panic" ELSE "bind"
    ELSE IF v = 0 THEN "reject" ELSE "forward"
AddChunkBranchFatalRebind(v, r, chunkID) ==
    IF chunkID = 0
    THEN IF ~r.ok THEN "reject"
         ELSE IF v # 0 THEN "panic"
         ELSE IF ~ValidatorSupported(r.h) THEN "panic" ELSE "bind"
    ELSE IF v = 0 THEN "reject" ELSE "forward"
AddChunkBranch(v, r, chunkID) ==
    IF chunkID = 0
    THEN IF ~r.ok THEN "reject"
         ELSE IF v # 0 THEN "reject"
         ELSE IF ~ValidatorSupported(r.h) THEN "panic" ELSE "bind"
    ELSE IF v = 0 THEN "reject" ELSE "forward"

\* v.AddChunk(data, chunkID); the call is recorded with chunkID, whether
\* the chunk holds a header, and the version and checksum type of it
AddChunk ==
    /\ sv.st = "live" /\ sv.calls < MaxChunks
    /\ \E data \in ChunkData, chunkID \in ChunkIDs :
        LET r == getHeaderFromFirstChunk(data)
            branch == AddChunkBranch(sv.v, r, chunkID)
            arg == IF r.ok
                   THEN <<chunkID, 1, r.h.Version, r.h.ChecksumType>>
                   ELSE <<chunkID, 0, 0, 0>>
            called == [sv EXCEPT !.calls = @ + 1,
                                 !.bad0 = IF chunkID = 0 /\ ~r.ok
                                          THEN @ + 1 ELSE @]
            forward(val) ==
                \E ok \in ChunkVerdicts(val.v) :
                    /\ sv' = [val EXCEPT !.h = @ \o ChunkPayload(data, chunkID),
                                         !.fed = @ + 1]
                    /\ last' = Call("AddChunk", IF ok THEN "true" ELSE "false",
                                    arg, <<>>)
        IN  CASE branch = "reject" ->
                    /\ sv' = called
                    /\ last' = Call("AddChunk", "false", arg, <<>>)
              [] branch = "panic" ->
                    /\ sv' = [called EXCEPT !.st = "panic"]
                    /\ last' = Call("AddChunk", "panic", arg, <<>>)
              [] branch = "bind" ->
                    forward([called EXCEPT !.v = r.h.Version, !.header = r.h])
              [] branch = "forward" -> forward(called)
    /\ UNCHANGED <<file, sw, sr, sr2>>

\* what v.Validate() returns
ValidateResultVacuous(val) == val.v = 0 \/ StrategyValidate(val)
ValidateResult(val) == IF val.v = 0 THEN FALSE ELSE StrategyValidate(val)

\* v.Validate()
Validate ==
    /\ sv.st = "live"
    /\ last' = Call("Validate",
                    IF ValidateResult(sv) THEN "true" ELSE "false",
                    <<>>, <<>>)
    /\ UNCHANGED <<file, sw, sr, sr2, sv>>

Next ==
    \/ NewSnapshotWriter \/ Write \/ Flush \/ SaveHeader \/ CloseWriter
    \/ Abandon \/ InstallFile
    \/ NewSnapshotReader \/ GetHeader \/ Read \/ ValidatePayload
    \/ ValidateHeader \/ CloseReader
Spec == Init /\ [][Next]_vars

NextV == AddChunk \/ Validate
SpecV == Init /\ [][NextV]_vars

\* the writer, the reader, and damage to the file between the two
NextD == Next \/ Damage
SpecD == Init /\ [][NextD]_vars

\* Two readers on one file that a writer completed.  The writer has made
\* the calls open(version), write(p) unless p is empty, flush,
\* saveHeader(smsz, sz) and close, and none has failed.
CompletedFile(vw, smsz, sz, now) ==
    HeaderRegion(Marshal(BuildHeader(vw, smsz, sz, now))) \o vw.h
    \o (IF vw.version = v2SnapshotVersion THEN V2Tail ELSE <<>>)
CompletedWriter(vw, smsz, sz, now) ==
    [st |-> "closed", fd |-> FALSE,
     pos |-> LenPrefixSize + Len(Marshal(BuildHeader(vw, smsz, sz, now))),
     vw |-> vw, canon |-> "closed",
     calls |-> IF vw.h = <<>> THEN 2 ELSE 3, saved |-> <<smsz, sz, now>>]
InitR ==
    /\ \E version \in {v1SnapshotVersion, v2SnapshotVersion}, p \in Buffers,
          now \in TimeVals :
          LET vw == [NewVW(version) EXCEPT !.h = p]
              smsz == 1
              sz == 1
          IN  /\ file = CompletedFile(vw, smsz, sz, now)
              /\ sw = CompletedWriter(vw, smsz, sz, now)
    /\ sr = NoReader
    /\ sr2 = NoReader
    /\ sv = NoValidator
    /\ last = Call("Close", "ok", <<"none">>, CloseDone("none"))
NextR ==
    \/ NewSnapshotReader \/ GetHeader \/ Read \/ ValidatePayload
    \/ ValidateHeader \/ CloseReader
    \/ NewSnapshotReader2 \/ GetHeader2 \/ Read2 \/ ValidatePayload2
    \/ ValidateHeader2 \/ CloseReader2
SpecR == InitR /\ [][NextR]_vars

(***************************************************************************)
(* Properties.  A step of a call is told by last' and by the call counter  *)
(* of the object.                                                          *)
(***************************************************************************)
\* the writer followed open, write*, flush, saveHeader, close, all of which
\* succeeded
Canonical == sw.canon = "closed"
IsPrefix(a, b) == Len(a) <= Len(b) /\ a = Take(b, Len(a))

\* C1: round trip.  On a file written by open(V), write* of P, flush,
\* saveHeader(s, d), close, and a reader on which GetHeader is called
\* once: getHeader succeeds unless an I/O call fails, the
\* header it returns has sessionSize s, dataStoreSize d and version V, the
\* bytes read are a prefix of P and are exactly P at end-of-stream, and
\* validateHeader, and validatePayload at end-of-stream, do not fail.
C1_RoundTrip ==
    Canonical /\ sr.st # "none" /\ sr.ghcalls <= 1 =>
        /\ last.op = "GetHeader" /\ last.arg = <<"none">> => last.res = "ok"
        /\ sr.hasHeader =>
              /\ sr.header.SessionSize = sw.saved[1]
              /\ sr.header.DataStoreSize = sw.saved[2]
              /\ sr.header.Version = sw.vw.version
              /\ IsPrefix(sr.h, sw.vw.h)
              /\ sr.eof => sr.h = sw.vw.h
              /\ last.op = "ValidateHeader" => last.res = "ok"
              /\ last.op = "ValidatePayload" /\ sr.eof => last.res = "ok"

\* a version 2 payload of MaxPayload bytes was written, read back to the
\* end and validated
C1_Witness ==
    /\ Canonical /\ sw.vw.version = v2SnapshotVersion
    /\ Len(sw.vw.h) = MaxPayload /\ sw.vw.h[1] # sw.vw.h[MaxPayload]
    /\ sr.eof /\ sr.h = sw.vw.h /\ sr.vh /\ sr.vp
    /\ sw.saved[1] # sw.saved[2]

AddChunkStep == last'.op = "AddChunk" /\ sv'.calls = sv.calls + 1
Unbound(val) == val.v = 0
Bound(val) == val.v # 0

\* C2: chunk-order enforcement.  Every AddChunk with chunkID > 0 on an
\* Unbound validator returns false, gives the strategy nothing and leaves
\* the validator Unbound and alive.
C2_ChunkOrder ==
    [][AddChunkStep /\ Unbound(sv) /\ last'.arg[1] > 0 =>
          /\ last'.res = "false"
          /\ Unbound(sv') /\ sv'.st = "live"
          /\ sv'.fed = sv.fed /\ sv'.h = sv.h /\ sv'.header = sv.header]_vars

\* MaxChunks chunks with chunkID > 0 were all rejected
C2_Witness ==
    /\ Unbound(sv) /\ sv.calls = MaxChunks /\ sv.bad0 = 0
    /\ last.op = "AddChunk" /\ last.arg[1] > 0 /\ last.res = "false"

\* C3: duplicate header enforcement.  Every AddChunk with chunkID = 0 on a
\* Bound validator returns false and gives the strategy nothing; and no
\* step replaces the strategy or the header of a Bound validator, or makes
\* it Unbound.
C3_DuplicateHeader ==
    [][Bound(sv) =>
          /\ sv'.v = sv.v /\ sv'.header = sv.header
          /\ AddChunkStep /\ last'.arg[1] = 0 =>
                /\ last'.res = "false"
                /\ sv'.fed = sv.fed /\ sv'.h = sv.h]_vars

\* a second chunk 0 that holds a header was rejected by a Bound validator
C3_Witness ==
    /\ Bound(sv) /\ sv.fed = 1 /\ sv.calls = 2
    /\ last.op = "AddChunk" /\ last.res = "false"
    /\ last.arg[1] = 0 /\ last.arg[2] = 1

\* C4: Validate returns false on a validator that is not Bound, and the
\* verdict of the strategy on one that is.
C4_Validate ==
    last.op = "Validate" =>
        IF Unbound(sv) THEN last.res = "false"
        ELSE last.res = "true" <=> StrategyValidate(sv)

\* Validate returned false after MaxChunks rejected chunks
C4_Witness ==
    /\ last.op = "Validate" /\ last.res = "false"
    /\ Unbound(sv) /\ sv.calls = MaxChunks /\ sv.fed = 0

\* C5: a chunk 0 that holds no header, on an Unbound validator, is rejected
\* and leaves the validator Unbound and alive; and after such a chunk a
\* chunk 0 with a header of a supported version binds the validator.
C5_BadFirstChunk ==
    [][AddChunkStep /\ Unbound(sv) /\ last'.arg[1] = 0 =>
          /\ last'.arg[2] = 0 =>
                /\ last'.res = "false"
                /\ Unbound(sv') /\ sv'.st = "live"
                /\ sv'.fed = sv.fed /\ sv'.h = sv.h
          /\ last'.arg[2] = 1 /\ sv.bad0 > 0 /\ last'.res # "panic" =>
                Bound(sv')]_vars

\* a validator that rejected a chunk 0 without a header is Bound by a later
\* chunk 0
C5_Witness ==
    /\ sv.bad0 > 0 /\ Bound(sv) /\ sv.fed = 1
    /\ last.op = "AddChunk" /\ last.res = "true"
    /\ last.arg[1] = 0 /\ last.arg[2] = 1

\* C6 as stated: a chunk 0 given to a Bound validator ends in a panic.
C6_Original ==
    [][AddChunkStep /\ Bound(sv) /\ last'.arg[1] = 0 =>
          last'.res = "panic" /\ sv'.st = "panic"]_vars

\* C6, amended: a chunk 0 given to a Bound validator is returned to the
\* caller as false, without a panic; the validator stays alive.
C6_SoftRejection ==
    [][AddChunkStep /\ Bound(sv) /\ last'.arg[1] = 0 =>
          last'.res = "false" /\ sv'.st = "live"]_vars

\* a Bound validator that returned false for a chunk 0 is alive
C6_Witness ==
    /\ Bound(sv) /\ sv.st = "live" /\ sv.calls >= 2
    /\ last.op = "AddChunk" /\ last.arg[1] = 0 /\ last.res = "false"

SaveHeaderStep == last'.op = "SaveHeader" /\ sw'.calls = sw.calls + 1
\* the length prefix a file starts with
StoredLen(f) == Uint64(Take(f, LenPrefixSize))
\* file offsets [from, to), 0-based
Range(f, from, to) == SubSeq(f, from + 1, to)
AllZero(b) == \A i \in 1 .. Len(b) : b[i] = 0

\* C7: two-pass layout.  A successful open leaves exactly H zero bytes in
\* the file and no payload byte.  A successful SaveHeader stores at offset 0
\* the length L <= H-8 in 8 little-endian bytes and then L bytes that are
\* the serialized header of its arguments, with a valid checksum; it
\* changes no byte at or beyond 8+L and not the length of the file; and
\* when the header region was all zero before, [8+L, H) is zero after.
C7_TwoPassLayout ==
    [][/\ last'.op = "NewSnapshotWriter" /\ last'.res = "ok" /\ sw.st = "none"
          => /\ file' = Zeros(SnapshotHeaderSize)
             /\ sw'.pos = SnapshotHeaderSize /\ sw'.vw.h = <<>>
       /\ SaveHeaderStep /\ last'.res = "ok" =>
            LET L == StoredLen(file')
                data == Range(file', LenPrefixSize, LenPrefixSize + L)
                r == Unmarshal(data)
            IN  /\ LenPrefixSize + L <= SnapshotHeaderSize
                /\ Take(file', LenPrefixSize) = PutUint(L, LenPrefixSize)
                /\ r.ok /\ Marshal(r.h) = data /\ HeaderValid(r.h)
                /\ r.h.SessionSize = last'.arg[1]
                /\ r.h.DataStoreSize = last'.arg[2]
                /\ r.h.Version = sw.vw.version
                /\ r.h.PayloadChecksum = newCRC32Hash(sw.vw.h)
                /\ Len(file') = Len(file)
                /\ Drop(file', LenPrefixSize + L) = Drop(file, LenPrefixSize + L)
                /\ AllZero(Take(file, SnapshotHeaderSize)) =>
                      AllZero(Range(file', LenPrefixSize + L,
                                    SnapshotHeaderSize))]_vars

\* a header was saved over a payload, and padding is left after it
C7_Witness ==
    /\ last.op = "SaveHeader" /\ last.res = "ok"
    /\ Len(sw.vw.h) > 0 /\ sw.vw.version = v1SnapshotVersion
    /\ Drop(file, SnapshotHeaderSize) = sw.vw.h
    /\ LenPrefixSize + StoredLen(file) < SnapshotHeaderSize

\* C8: oversized header.  A SaveHeader whose serialized header is longer
\* than H-8 bytes panics and leaves every byte of the file as it was.
C8_OversizedHeader ==
    [][SaveHeaderStep
       /\ Len(Marshal(BuildHeader(sw.vw, last'.arg[1], last'.arg[2],
                                  last'.arg[3])))
            > SnapshotHeaderSize - LenPrefixSize =>
          /\ last'.res = "panic" /\ sw'.st = "panic"
          /\ file' = file]_vars

\* SaveHeader panicked on a header one byte too long, with a payload in
\* the file
C8_Witness ==
    /\ last.op = "SaveHeader" /\ last.res = "panic" /\ sw.st = "panic"
    /\ Len(Marshal(BuildHeader(sw.vw, last.arg[1], last.arg[2], last.arg[3])))
         = SnapshotHeaderSize - LenPrefixSize + 1
    /\ Len(file) > SnapshotHeaderSize

\* C9: a Read on a reader whose GetHeader has not returned a header panics,
\* also after a GetHeader that returned an error; and sr.r is set only by a
\* GetHeader that returns a header.
C9_ReadBeforeHeader ==
    [][/\ last'.op = "Read" /\ ~sr.hasHeader =>
             last'.res = "panic" /\ sr'.st = "panic"
       /\ sr'.r # sr.r => last'.op = "GetHeader" /\ last'.res = "ok"
       /\ ~sr'.hasHeader => sr'.r = 0]_vars

\* a Read panicked after a GetHeader that returned an error
C9_Witness ==
    /\ last.op = "Read" /\ last.res = "panic"
    /\ sr.gherr /\ ~sr.hasHeader /\ sr.r = 0

\* C10 as stated: GetHeader binds a strategy reader, and bytes are read and
\* hashed, only for a header whose version and checksum type are supported.
C10_Original ==
    sr.r # 0 =>
        /\ VersionSupported(sr.header.Version)
        /\ ChecksumSupported(sr.header.ChecksumType)

\* C11 as stated: once a file written by a writer has a header byte or a
\* payload byte changed, or is cut short, the sequence getHeader, read to
\* end-of-stream, validateHeader, validatePayload does not complete
\* without an error or a panic.
Damaged == sw.st \in {"corrupt", "truncated"}
ReadThrough ==
    /\ sr.st = "open" /\ sr.hasHeader /\ sr.ghcalls = 1 /\ sr.eof /\ sr.vh
    /\ last.op = "ValidatePayload" /\ last.res = "ok"
C11_Original == Damaged => ~ReadThrough

CloseStep == last'.op = "Close" /\ sw' # sw
CloseOrder == <<"sync", "syncdir", "close">>

\* C12: the sub-steps Close carries out are, in this order, the sync of
\* the file, the sync of the directory and the close of the handle, up to
\* the first that fails; Close returns nil exactly when all three were
\* carried out, and returns the error of a failed sub-step with no later
\* sub-step carried out.
C12_CloseOrder ==
    [][CloseStep =>
          /\ IsPrefix(last'.out, CloseOrder)
          /\ last'.res = "ok" <=> last'.out = CloseOrder
          /\ last'.res = "ok" <=> last'.arg = <<"none">>
          /\ \A k \in 1 .. 3 :
                last'.arg = <<CloseOrder[k]>> =>
                    /\ last'.res = "err"
                    /\ last'.out = Take(CloseOrder, k - 1)]_vars

\* a Close failed in the sync of the directory, after the sync of the file
C12_Witness ==
    /\ last.op = "Close" /\ last.res = "err" /\ last.arg = <<"syncdir">>
    /\ last.out = <<"sync">> /\ sw.canon = "off" /\ Len(sw.vw.h) > 0

\* the state of a writer that completed its file, and the file, are what
\* the two-reader specification starts from
CompletedAsModelled ==
    Canonical /\ sw.st = "closed" =>
        /\ file = CompletedFile(sw.vw, sw.saved[1], sw.saved[2], sw.saved[3])
        /\ sw.pos = CompletedWriter(sw.vw, sw.saved[1], sw.saved[2],
                                    sw.saved[3]).pos

\* the header that the writer of the file saved
WrittenHeader == BuildHeader(sw.vw, sw.saved[1], sw.saved[2], sw.saved[3])
\* What a reader that runs alone on the completed file has: the header
\* of the writer, the payload up to its own offset, and the outcome of
\* the validations that its own calls determine.
ReaderAsAlone(rd) ==
    /\ rd.hasHeader <=> rd.r # 0
    /\ rd.hasHeader =>
          /\ rd.header = WrittenHeader /\ rd.r = sw.vw.version
          /\ IsPrefix(rd.h, sw.vw.h)
          /\ rd.pos = SnapshotHeaderSize + Len(rd.h)
          /\ rd.eof => rd.h = sw.vw.h
    /\ ~rd.hasHeader => rd.h = <<>> /\ ~rd.vh /\ ~rd.vp
    /\ rd.vp => rd.h = sw.vw.h
    /\ rd.st = "panic" => ~rd.hasHeader \/ rd.h # sw.vw.h

\* C13: concurrent readers.  With two readers on one completed file, no
\* call of a reader changes the file or the other reader, and whatever the
\* interleaving each reader has the header, the bytes read and the
\* validation outcomes that it has when it runs alone.
C13_ConcurrentReaders ==
    [][/\ file' = file
       /\ sr' = sr \/ sr2' = sr2
       /\ ReaderAsAlone(sr') /\ ReaderAsAlone(sr2')]_vars

\* one reader has read and validated the whole payload while the other is
\* in the middle of it
C13_Witness ==
    /\ sr.st = "open" /\ sr2.st = "open" /\ sr.hasHeader /\ sr2.hasHeader
    /\ Len(sw.vw.h) = MaxPayload /\ Len(sr.h) = 1
    /\ sr2.eof /\ sr2.vh /\ sr2.vp /\ sr2.h = sw.vw.h

\* C14: on a version 2 file of F bytes the bytes a reader has read are at
\* most max(0, F - H - 16), and they are the bytes of the file from offset
\* H on, all below offset F - 16; when F < H + 16 a Read returns the end
\* of the stream and no byte, not an error.
C14_V2TrailerNeverRead ==
    sr.r = v2SnapshotVersion =>
        LET F == Len(file)
            n == Len(sr.h)
        IN  /\ n <= Max(0, F - SnapshotHeaderSize - V2TailSize)
            /\ sr.h = Range(file, SnapshotHeaderSize, SnapshotHeaderSize + n)
            /\ n > 0 => SnapshotHeaderSize + n <= F - V2TailSize
            /\ last.op = "Read" =>
                  /\ last.res \in {"ok", "eof"}
                  /\ F < SnapshotHeaderSize + V2TailSize =>
                        last.res = "eof" /\ last.out = <<>> /\ n = 0

\* a Read on a version 2 file shorter than H + 16 returned the end of the
\* stream
C14_Witness ==
    /\ sr.r = v2SnapshotVersion /\ sr.st = "open"
    /\ Len(file) < SnapshotHeaderSize + V2TailSize
    /\ last.op = "Read" /\ last.res = "eof" /\ sr.h = <<>>

GetHeaderStep == last'.op = "GetHeader" /\ sr'.ghcalls = sr.ghcalls + 1
\* GetHeader panicked after the length prefix and before any header byte
SizePanic(c, rd) == c.res = "panic" /\ c.out = <<>> /\ rd.pos = LenPrefixSize

\* C15: a GetHeader that has read the length prefix sz at offset 0 panics
\* before it reads a header byte exactly when sz > H-8; that is the bound
\* of SaveHeader, so that a length SaveHeader accepts is accepted; and
\* the header bytes GetHeader reads are those at offsets [8, 8+n) with
\* 8+n <= H.
C15_LengthBound ==
    [][GetHeaderStep /\ sr.pos = 0 /\ Len(file) >= LenPrefixSize =>
          LET sz == StoredLen(file)
              n == Len(last'.out)
          IN  /\ SizePanic(last', sr') <=> sz > SnapshotHeaderSize - LenPrefixSize
              /\ sz <= 2 * SnapshotHeaderSize =>
                    (SizePanic(last', sr') <=> HeaderTooLarge(Zeros(sz)))
              /\ last'.out = Range(file, LenPrefixSize, LenPrefixSize + n)
              /\ LenPrefixSize + n <= SnapshotHeaderSize]_vars

\* GetHeader accepted a header of H-8 bytes, the longest that SaveHeader
\* stores
C15_Witness ==
    /\ Canonical /\ last.op = "GetHeader" /\ last.res = "ok"
    /\ StoredLen(file) = SnapshotHeaderSize - LenPrefixSize
    /\ Len(last.out) = SnapshotHeaderSize - LenPrefixSize

\* C16: a GetHeader that returns a header leaves the file at offset H,
\* whatever the length of the header, with nothing read yet; and the
\* bytes a reader has read are the bytes of the file from offset H on, so
\* that none of them is a byte of the padding.
C16_PayloadOffset ==
    [][/\ GetHeaderStep /\ last'.res = "ok" =>
             sr'.pos = SnapshotHeaderSize /\ sr'.h = <<>>
       /\ sr'.hasHeader =>
             /\ sr'.pos = SnapshotHeaderSize + Len(sr'.h)
             /\ sr'.h = Range(file', SnapshotHeaderSize,
                              SnapshotHeaderSize + Len(sr'.h))]_vars

\* the first byte read is the byte at offset H of a file whose header is
\* followed by padding
C16_Witness ==
    /\ Canonical /\ sr.hasHeader /\ sr.st = "open"
    /\ LenPrefixSize + StoredLen(file) < SnapshotHeaderSize
    /\ Len(sr.h) >= 1 /\ sr.h[1] = 1 /\ file[SnapshotHeaderSize + 1] = 1
    /\ last.op = "Read" /\ last.res = "ok"

\* C17 as stated: when NewSnapshotWriter or Close returns an error, no
\* file descriptor that the writer opened is still open.
C17_Original ==
    /\ last.op \in {"NewSnapshotWriter", "Close"}
    /\ last.res = "err"
    => ~sw.fd

\* C18 as stated: every Write and Flush, also one made after SaveHeader,
\* leaves the header region as it was and stores the payload bytes at
\* offset H and beyond, in call order.
C18_Original ==
    [][last'.op \in {"Write", "Flush"} /\ sw'.calls = sw.calls + 1 =>
          /\ Take(file', SnapshotHeaderSize) = Take(file, SnapshotHeaderSize)
          /\ sw.vw.version = v1SnapshotVersion =>
                Drop(file', SnapshotHeaderSize) = sw'.vw.h]_vars

\* the chunk of an AddChunk call is chunk 0 and holds a header
HeaderChunk(c) == c.arg[1] = 0 /\ c.arg[2] = 1

\* C19 as stated: the validator is Bound after an AddChunk exactly when it
\* was Bound before, or the chunk is chunk 0 and holds a header of a
\* supported version.
C19_Original ==
    [][AddChunkStep =>
          (Bound(sv') <=>
              \/ Bound(sv)
              \/ HeaderChunk(last') /\ VersionSupported(last'.arg[3]))]_vars

\* C19, amended: the validator is Bound after an AddChunk exactly when it
\* was Bound before, or the chunk is chunk 0 and holds a header of
\* version 1, or of version 2 with a supported checksum type; an AddChunk
\* returns true only on a validator that is Bound after it and whose
\* strategy was given the chunk.
C19_Binding ==
    [][AddChunkStep =>
          /\ Bound(sv') <=>
                \/ Bound(sv)
                \/ /\ HeaderChunk(last')
                   /\ \/ last'.arg[3] = v1SnapshotVersion
                      \/ /\ last'.arg[3] = v2SnapshotVersion
                         /\ last'.arg[4] = CRC32IEEE
          /\ last'.res = "true" => Bound(sv') /\ sv'.fed = sv.fed + 1
          /\ sv'.fed # sv.fed => Bound(sv')]_vars

\* a chunk 0 bound the validator, and the call returned false
C19_Witness ==
    /\ Bound(sv) /\ sv.calls = 1 /\ sv.fed = 1
    /\ last.op = "AddChunk" /\ HeaderChunk(last) /\ last.res = "false"

\* C20: on the file of a writer that stopped before SaveHeader the header
\* region is all zero, and the GetHeader of a reader opened on it returns
\* no header and binds no strategy reader: without an I/O failure it
\* reads the length 0 and panics on version 0 after the seek to H.
C20_UnfinalizedHeader ==
    sw.st = "abandoned" =>
        /\ AllZero(Take(file, SnapshotHeaderSize))
        /\ sr.ghcalls <= 1 =>
              /\ sr.r = 0 /\ ~sr.hasHeader
              /\ last.op = "GetHeader" =>
                    /\ last.res \in {"panic", "err"} /\ last.out = <<>>
                    /\ last.arg = <<"none">> =>
                          /\ last.res = "panic" /\ sr.st = "panic"
                          /\ sr.pos = SnapshotHeaderSize

\* GetHeader panicked on the file of a writer that stopped after writing
\* a payload
C20_Witness ==
    /\ sw.st = "abandoned" /\ Len(sw.vw.h) = MaxPayload
    /\ Len(file) > SnapshotHeaderSize
    /\ last.op = "GetHeader" /\ last.res = "panic" /\ sr.st = "panic"

====
